---- MODULE Spec2Model ----
(***************************************************************************)
(* Model of the flat-hunting pipeline:                                     *)
(*   - flathunt.app.App.search / App._check_journey (discovery pass and    *)
(*     commute feasibility evaluation),                                    *)
(*   - tfl.api.Tfl.__call__ / tfl.api._request / get_next_datetime         *)
(*     (journey client),                                                   *)
(*   - rightmove.api._RawRightmove._search / Rightmove.search (paginated   *)
(*     listing fetch).                                                     *)
(* Instants are minutes since midnight of day 0; day 0 is a Monday.        *)
(***************************************************************************)
EXTENDS Integers, Sequences, FiniteSets, TLC

VARIABLES
    \* ---- flathunt.app.App ----
    cache,                  \* App._cache: [present, ids]; present = FALSE is None
    today,                  \* calendar day of datetime.now()
    journey_coordinates,    \* argument: destinations in declared order
    max_journey_timedelta,  \* argument: allowed travel time (minutes)
    location_id,            \* argument of the running pass
    pc,                     \* position of App.search
    passes,                 \* number of passes started
    properties,             \* result of self._api.search(query)
    new_properties,         \* properties after the cache filter
    index,                  \* enumerate index of the per-listing loop (0-based)
    caller,                 \* call site of the running _check_journey
    dest,                   \* position in journey_coordinates.items() (1-based)
    journeys,               \* _check_journey local: list returned by the client
    min_journey,            \* _check_journey local: selected journey
    result,                 \* outcome of the last _check_journey call
    error,                  \* exception that left App.search
    \* ---- observations of one pass ----
    cache_at_start,         \* cache.ids when the pass began
    queried,                \* journey queries of the running evaluation
    precheck,               \* outcome of the station pre-check of this pass
    search_calls,           \* self._api.search calls of this pass
    outcomes,               \* per element of new_properties: what the loop did
    shown,                  \* listings passed to _show, in order
    waits,                  \* enumerate indices after which _wait was called
    ever_evaluated,         \* ids whose feasibility evaluation ever began
    ever_shown,             \* ids ever passed to _show
    \* ---- rightmove.api._RawRightmove._search ----
    spc,                    \* position of _search
    params,                 \* request parameters (viewType, page size, index)
    response,               \* the latest page response
    full_response,          \* the aggregated response
    requests,               \* index parameter of every request issued
    received,               \* every page response received, in request order
    service_total,          \* number of listings the service has for the query
    \* ---- tfl.api.Tfl.__call__ on its own ----
    tpc,                    \* position of Tfl.__call__
    http_response,          \* the HTTP response of the journey service
    request_result,         \* what _request returned or raised
    call_result,            \* what Tfl.__call__ returned or raised
    \* ---- tfl.api.get_next_datetime on its own ----
    gpc,                    \* position of get_next_datetime
    now,                    \* datetime.now(tz=timezone): [day, minute]
    next_day,               \* local next_day
    deadline                \* the datetime returned

appVars == <<cache, today, journey_coordinates, max_journey_timedelta,
             location_id, pc, passes, properties, new_properties, index,
             caller, dest, journeys, min_journey, result, error,
             cache_at_start, queried, precheck, search_calls, outcomes,
             shown, waits, ever_evaluated, ever_shown>>

searchVars == <<spc, params, response, full_response, requests, received,
               service_total>>

tflVars == <<tpc, http_response, request_result, call_result>>

dateVars == <<gpc, now, next_day, deadline>>

vars == <<appVars, searchVars, tflVars, dateVars>>

\* ------------------------------------------------------------------------
\* Bounds
\* ------------------------------------------------------------------------
MaxListingId == 2
MaxListings == 2
MaxPasses == 2
MaxDestinations == 2
MaxJourneys == 3
MaxResultCount == 1030
MaxDay == 13
MaxStallingCount == 3
MaxStallingPageSize == 2

\* ------------------------------------------------------------------------
\* Values
\* ------------------------------------------------------------------------
Abs(x) == IF x < 0 THEN 0 - x ELSE x

Min(a, b) == IF a < b THEN a ELSE b

DigitChars == <<"0", "1", "2", "3", "4", "5", "6", "7", "8", "9">>

DigitValue(c) == (CHOOSE d \in 1..10 : DigitChars[d] = c) - 1

RECURSIVE DecimalDigits(_)
DecimalDigits(n) ==
    IF n < 10 THEN <<DigitChars[n + 1]>>
    ELSE Append(DecimalDigits(n \div 10), DigitChars[(n % 10) + 1])

\* The service writes counts with thousands separators: 1008 is "1,008".
RECURSIVE GroupThousands(_)
GroupThousands(digits) ==
    IF Len(digits) <= 3 THEN digits
    ELSE GroupThousands(SubSeq(digits, 1, Len(digits) - 3))
         \o <<",">> \o SubSeq(digits, Len(digits) - 2, Len(digits))

FormatCount(n) == GroupThousands(DecimalDigits(n))

\* str.replace(",", "")
RemoveCommas(chars) == SelectSeq(chars, LAMBDA c : c # ",")

\* int(...) of a digit string
RECURSIVE ParseInt(_)
ParseInt(chars) ==
    IF chars = <<>> THEN 0
    ELSE 10 * ParseInt(SubSeq(chars, 1, Len(chars) - 1))
         + DigitValue(chars[Len(chars)])

StartsWith(s, p) == Len(s) >= Len(p) /\ SubSeq(s, 1, Len(p)) = p

\* "STATION^" as a character sequence
StationPrefix == <<"S", "T", "A", "T", "I", "O", "N", "^">>

LocationIds == { StationPrefix \o <<"8">>,
                 <<"R", "E", "G", "I", "O", "N", "^", "8">> }

ListingIds == 1..MaxListingId

\* A decoded listing: identifier and price (None when absent).
Listings == [id : ListingIds, price : {"None", "pcm"}]

SeqsUpTo(S, n) == UNION {[1..k -> S] : k \in 0..n}

ListingSeqs == SeqsUpTo(Listings, MaxListings)

DestinationNames == <<"work", "gym", "school">>

MinutesPerDay == 1440
ArrivalMinuteOfDay == 540

\* Departure instants the journey service answers with, relative to the
\* requested arrival instant.
DepartureOffsets == {0 - 5, 0 - 1, 2}
MaxJourneyTimedeltas == {1}

HTTPErrors == {"RateLimitError", "NotFoundError", "InternalServerError",
               "BadGatewayError", "HTTPError"}


\* ------------------------------------------------------------------------
\* tfl.api: journey client
\* ------------------------------------------------------------------------
NoJourneyFound == "No journey found for your inputs."

\* A journey as parse_journey returns it; only the departure instant is used.
Journey(t) == [departure_datetime |-> t]

\* The journeys arrays the service can send for a requested arrival instant.
JourneyLists(arrival) ==
    { js \in SeqsUpTo({Journey(arrival + o) : o \in DepartureOffsets}, MaxJourneys) :
        \A i, j \in 1..Len(js) : i # j => js[i] # js[j] }

\* Response bodies: nothing, text that is not JSON, or a JSON object with an
\* optional "message" and an optional "journeys" array.
NoJourneys == <<>>
EmptyBody == [kind |-> "empty", message |-> "absent", has_journeys |-> FALSE, journeys |-> NoJourneys]
TextBody == [kind |-> "text", message |-> "absent", has_journeys |-> FALSE, journeys |-> NoJourneys]
JsonBody(m, h, js) == [kind |-> "json", message |-> m, has_journeys |-> h, journeys |-> js]

MessageBodies ==
    { JsonBody(m, FALSE, NoJourneys) : m \in {"absent", NoJourneyFound, "other"} }

JourneyBodies(arrival) ==
    { JsonBody("absent", TRUE, js) : js \in JourneyLists(arrival) }

TflStatuses == {200, 404, 429, 500, 502, 503}

\* Retry-After header values: absent, a number of seconds, not a number.
NoHeader == <<>>
RetryAfterHeaders == {NoHeader, <<"3", "0">>, <<"s", "o", "o", "n">>}

IsNumeric(chars) ==
    chars # <<>> /\ \A k \in 1..Len(chars) : \E d \in 1..10 : DigitChars[d] = chars[k]

\* Every HTTP response of the journey service the model considers.
TflResponses(arrival) ==
    [status : {200}, retry_after : {NoHeader},
     body : {EmptyBody, TextBody} \cup MessageBodies \cup JourneyBodies(arrival)]
    \cup [status : TflStatuses \ {200, 429}, retry_after : {NoHeader},
          body : {EmptyBody, TextBody} \cup MessageBodies
                 \cup {JsonBody("absent", TRUE, NoJourneys)}]
    \cup [status : {429}, retry_after : RetryAfterHeaders,
          body : {EmptyBody, TextBody} \cup MessageBodies
                 \cup {JsonBody("absent", TRUE, NoJourneys)}]

\* json.loads(raw_response) result is truthy: a non-empty object.
Truthy(body) == body.kind = "json" /\ (body.message # "absent" \/ body.has_journeys)

Raise(e) == [raised |-> e, response |-> EmptyBody, wait |-> 0]
Return(b) == [raised |-> "none", response |-> b, wait |-> 0]

\* raise RateLimitError(wait=int(http_response.getheader("Retry-After") or -1))
RaiseRateLimit(header) ==
    IF header = NoHeader THEN [Raise("RateLimitError") EXCEPT !.wait = 0 - 1]
    ELSE IF IsNumeric(header)
         THEN [Raise("RateLimitError") EXCEPT !.wait = ParseInt(header)]
         ELSE Raise("ValueError")

\* tfl.api._request: decode the body, then map the status.
\* A returned body that is not Truthy stands for None or {}.
request(http) ==
    IF http.body.kind = "text" THEN Raise("JSONDecodeError")
    ELSE IF http.status = 429 THEN RaiseRateLimit(http.retry_after)
    ELSE IF http.status = 404 THEN
        IF Truthy(http.body) /\ http.body.message = "absent" THEN Raise("KeyError")
        ELSE IF Truthy(http.body) /\ http.body.message = NoJourneyFound THEN Return(EmptyBody)
        ELSE Raise("NotFoundError")
    ELSE IF http.status = 500 THEN Raise("InternalServerError")
    ELSE IF http.status = 502 THEN Raise("BadGatewayError")
    ELSE IF http.status # 200 THEN Raise("HTTPError")
    ELSE Return(http.body)

\* Sort key of Tfl.__call__ when an arrival instant is given.
SortKey(journey, arrival) == Abs(arrival - journey.departure_datetime)

RECURSIVE InsertSorted(_, _, _)
InsertSorted(sorted, journey, arrival) ==
    IF sorted = <<>> THEN <<journey>>
    ELSE IF SortKey(journey, arrival) < SortKey(Head(sorted), arrival)
         THEN <<journey>> \o sorted
         ELSE <<Head(sorted)>> \o InsertSorted(Tail(sorted), journey, arrival)

\* list.sort(key=...): stable, ascending.
RECURSIVE SortJourneys(_, _)
SortJourneys(js, arrival) ==
    IF js = <<>> THEN <<>>
    ELSE InsertSorted(SortJourneys(SubSeq(js, 1, Len(js) - 1), arrival),
                      js[Len(js)], arrival)

RaiseCall(e) == [raised |-> e, journeys |-> NoJourneys]
ReturnCall(js) == [raised |-> "none", journeys |-> js]

\* Tfl.__call__ with an arrival instant.
TflCall(http, arrival) ==
    LET r == request(http) IN
    IF r.raised # "none" THEN RaiseCall(r.raised)
    ELSE IF ~Truthy(r.response) THEN ReturnCall(NoJourneys)
    ELSE IF ~r.response.has_journeys THEN RaiseCall("KeyError")
    ELSE ReturnCall(SortJourneys(r.response.journeys, arrival))

Weekday(day) == day % 7

\* Variant: Saturday counts as a working day (> 5 for > 4).
IsWeekendSundayOnly(day) == Weekday(day) > 5

\* next_day.weekday() > 4
IsWeekend(day) == Weekday(day) > 4

RECURSIVE NextWorkingDay(_)
NextWorkingDay(day) ==
    IF IsWeekend(day) THEN NextWorkingDay(day + 1) ELSE day

\* tfl.api.get_next_datetime(time(9, 0)) evaluated on calendar day `day`.
get_next_datetime(day) ==
    NextWorkingDay(day + 1) * MinutesPerDay + ArrivalMinuteOfDay

\* ------------------------------------------------------------------------
\* flathunt.app.App._check_journey
\* ------------------------------------------------------------------------
\* key of min(journeys, key=...)
MinKey(journey, arrival) == arrival - journey.departure_datetime

\* min(journeys, key=...): the first element with the smallest key.
MinJourney(js, arrival) ==
    LET i == CHOOSE k \in 1..Len(js) :
                 /\ \A m \in 1..Len(js) : MinKey(js[k], arrival) <= MinKey(js[m], arrival)
                 /\ \A m \in 1..(k - 1) : MinKey(js[m], arrival) # MinKey(js[k], arrival)
    IN js[i]

\* Variant: the bound itself is rejected (>= for >).
UnacceptableStrict(min_journey_timedelta, max_timedelta) ==
    min_journey_timedelta >= max_timedelta

\* if min_journey_timedelta > max_journey_timedelta: return False
Unacceptable(min_journey_timedelta, max_timedelta) ==
    min_journey_timedelta > max_timedelta

NoJourney == Journey(0 - 1)

\* Variant: the destinations are visited last to first.
DestinationAtReversed(coordinates, d) == coordinates[Len(coordinates) - d + 1]

\* The d-th item of journey_coordinates.items(): declared order.
DestinationAt(coordinates, d) == coordinates[d]


\* One entry of the query log of an evaluation: the destination asked for,
\* how many journeys the client returned (-1 when it raised) and the slack
\* of the selected journey (0 when there is none).
QueryEntry(name, count, slack) == [name |-> name, count |-> count, slack |-> slack]

\* Entering _check_journey from call site `site`.
EnterCheckJourney(site) ==
    /\ pc' = "check"
    /\ caller' = site
    /\ dest' = 1
    /\ journeys' = NoJourneys
    /\ min_journey' = NoJourney
    /\ result' = "none"
    /\ queried' = <<>>

\* One iteration of `for location_name, journey_coordinate in ...items()`.
CheckJourneyQuery ==
    /\ UNCHANGED <<searchVars, tflVars, dateVars>>
    /\ pc = "check"
    /\ dest <= Len(journey_coordinates)
    /\ LET arrival_datetime == get_next_datetime(today)
           name == DestinationAt(journey_coordinates, dest)
       IN \E http \in TflResponses(arrival_datetime) :
            LET out == TflCall(http, arrival_datetime) IN
            IF out.raised # "none" THEN
                /\ result' = out.raised
                /\ pc' = "returned"
                /\ queried' = Append(queried, QueryEntry(name, 0 - 1, 0))
                /\ UNCHANGED <<journeys, min_journey, dest>>
            ELSE IF out.journeys = <<>> THEN
                \* min() of an empty sequence raises ValueError
                /\ result' = "ValueError"
                /\ pc' = "returned"
                /\ journeys' = out.journeys
                /\ queried' = Append(queried, QueryEntry(name, 0, 0))
                /\ UNCHANGED <<min_journey, dest>>
            ELSE
                LET chosen == MinJourney(out.journeys, arrival_datetime)
                    min_journey_timedelta == arrival_datetime - chosen.departure_datetime
                IN /\ journeys' = out.journeys
                   /\ min_journey' = chosen
                   /\ queried' = Append(queried,
                          QueryEntry(name, Len(out.journeys), min_journey_timedelta))
                   /\ IF Unacceptable(min_journey_timedelta, max_journey_timedelta)
                      THEN /\ result' = "False"
                           /\ pc' = "returned"
                           /\ UNCHANGED dest
                      ELSE /\ dest' = dest + 1
                           /\ UNCHANGED <<result, pc>>
    /\ UNCHANGED <<cache, today, journey_coordinates, max_journey_timedelta,
                   location_id, passes, properties, new_properties, index,
                   caller, error, cache_at_start, precheck, search_calls,
                   outcomes, shown, waits, ever_evaluated, ever_shown>>

\* The loop over the destinations is exhausted: return True.
CheckJourneyDone ==
    /\ UNCHANGED <<searchVars, tflVars, dateVars>>
    /\ pc = "check"
    /\ dest > Len(journey_coordinates)
    /\ result' = "True"
    /\ pc' = "returned"
    /\ UNCHANGED <<cache, today, journey_coordinates, max_journey_timedelta,
                   location_id, passes, properties, new_properties, index,
                   caller, dest, journeys, min_journey, error, cache_at_start,
                   queried, precheck, search_calls, outcomes, shown, waits,
                   ever_evaluated, ever_shown>>

\* ------------------------------------------------------------------------
\* rightmove.property_cache.PropertyCache
\* ------------------------------------------------------------------------
contains_property_id(ids, id) == id \in ids

add(ids, listing) == ids \cup {listing.id}

\* ------------------------------------------------------------------------
\* flathunt.app.App.search
\* ------------------------------------------------------------------------
\* Variant: the pre-check is entered for every location identifier.
IsStationAlways(loc) == TRUE

\* location_id.startswith("STATION^")
IsStation(loc) == StartsWith(loc, StationPrefix)

\* Variant: nothing is filtered out.
FilterCachedNone(props, c) == props

\* Variant: a missing cache filters every listing out
\* (`self._cache and not ...` for `not self._cache or not ...`).
FilterCachedRequiresCache(props, c) ==
    SelectSeq(props, LAMBDA property :
                  c.present /\ ~contains_property_id(c.ids, property.id))

\* [property for property in properties
\*  if not self._cache or not self._cache.contains_property_id(property.id)]
FilterCached(props, c) ==
    SelectSeq(props, LAMBDA property :
                  ~c.present \/ ~contains_property_id(c.ids, property.id))

\* Variant: an evaluated listing is not recorded.
CacheAddNever(c, property) == c

\* Variant: the store is overwritten with the latest listing.
CacheAddReplace(c, property) ==
    IF c.present THEN [c EXCEPT !.ids = {property.id}] ELSE c

\* if self._cache: self._cache.add(property.model_dump(mode="json"))
CacheAdd(c, property) ==
    IF c.present THEN [c EXCEPT !.ids = add(c.ids, property)] ELSE c

\* Variant: the pause is signalled after every displayed listing.
WaitsAfterShowAlways(w, i, props) == w \cup {i}

\* if index != len(new_properties) - 1: self._wait(...)
WaitsAfterShow(w, i, props) ==
    IF i # Len(props) - 1 THEN w \cup {i} ELSE w

\* price is falsy
NoPrice(property) == property.price = "None"

\* A pass begins: App.search is called.
Search ==
    /\ UNCHANGED <<searchVars, tflVars, dateVars>>
    /\ pc \in {"idle", "done", "raised"}
    /\ passes < MaxPasses
    /\ passes' = passes + 1
    /\ \E loc \in LocationIds :
        /\ location_id' = loc
        /\ IF IsStation(loc)
           THEN /\ EnterCheckJourney("precheck")
                /\ precheck' = "running"
           ELSE /\ pc' = "fetch"
                /\ caller' = "none"
                /\ dest' = 1
                /\ journeys' = NoJourneys
                /\ min_journey' = NoJourney
                /\ result' = "none"
                /\ queried' = <<>>
                /\ precheck' = "notrun"
    /\ error' = "none"
    /\ cache_at_start' = cache.ids
    /\ properties' = <<>>
    /\ new_properties' = <<>>
    /\ index' = 0
    /\ search_calls' = 0
    /\ outcomes' = <<>>
    /\ shown' = <<>>
    /\ waits' = {}
    /\ UNCHANGED <<cache, today, journey_coordinates, max_journey_timedelta,
                   ever_evaluated, ever_shown>>

\* Variant: no exception of the pre-check is caught.
CaughtAtPrecheckNever(exception) == FALSE

\* except tfl.api.HTTPError: HTTPError and its subclasses are caught.
CaughtAtPrecheck(exception) == exception \in HTTPErrors

\* The station pre-check returned or raised (lines 36-44).
PrecheckReturn ==
    /\ UNCHANGED <<searchVars, tflVars, dateVars>>
    /\ pc = "returned"
    /\ caller = "precheck"
    /\ precheck' = result
    /\ IF result = "False" THEN
            /\ pc' = "done"
            /\ error' = "none"
       ELSE IF result = "True" \/ CaughtAtPrecheck(result) THEN
            /\ pc' = "fetch"
            /\ error' = "none"
       ELSE /\ pc' = "raised"
            /\ error' = result
    /\ caller' = "none"
    /\ dest' = 1
    /\ journeys' = NoJourneys
    /\ min_journey' = NoJourney
    /\ result' = "none"
    /\ queried' = <<>>
    /\ UNCHANGED <<cache, today, journey_coordinates, max_journey_timedelta,
                   location_id, passes, properties, new_properties, index,
                   cache_at_start, search_calls, outcomes, shown, waits,
                   ever_evaluated, ever_shown>>

\* properties = self._api.search(query), then the cache filter (lines 46-68).
FetchListings ==
    /\ UNCHANGED <<searchVars, tflVars, dateVars>>
    /\ pc = "fetch"
    /\ \E props \in ListingSeqs :
        /\ properties' = props
        /\ new_properties' = FilterCached(props, cache)
    /\ search_calls' = search_calls + 1
    /\ index' = 0
    /\ pc' = "loop"
    /\ UNCHANGED <<cache, today, journey_coordinates, max_journey_timedelta,
                   location_id, passes, caller, dest, journeys, min_journey,
                   result, error, cache_at_start, queried, precheck, outcomes,
                   shown, waits, ever_evaluated, ever_shown>>

\* Variant: the failure is recorded but a partial result is handed on.
FetchListingsFailsPartial ==
    /\ UNCHANGED <<searchVars, tflVars, dateVars>>
    /\ pc = "fetch"
    /\ \E props \in ListingSeqs :
        /\ properties' = props
        /\ new_properties' = props
    /\ search_calls' = search_calls + 1
    /\ index' = 0
    /\ pc' = "loop"
    /\ error' = "rightmove.HTTPError"
    /\ UNCHANGED <<cache, today, journey_coordinates, max_journey_timedelta,
                   location_id, passes, caller, dest, journeys, min_journey,
                   result, cache_at_start, queried, precheck, outcomes,
                   shown, waits, ever_evaluated, ever_shown>>

\* self._api.search(query) raises rightmove.api.HTTPError.
FetchListingsFails ==
    /\ UNCHANGED <<searchVars, tflVars, dateVars>>
    /\ pc = "fetch"
    /\ search_calls' = search_calls + 1
    /\ pc' = "raised"
    /\ error' = "rightmove.HTTPError"
    /\ UNCHANGED <<cache, today, journey_coordinates, max_journey_timedelta,
                   location_id, passes, properties, new_properties, index,
                   caller, dest, journeys, min_journey, result,
                   cache_at_start, queried, precheck, outcomes, shown, waits,
                   ever_evaluated, ever_shown>>

\* for index, property in enumerate(new_properties): exhausted.
LoopDone ==
    /\ UNCHANGED <<searchVars, tflVars, dateVars>>
    /\ pc = "loop"
    /\ index >= Len(new_properties)
    /\ pc' = "done"
    /\ UNCHANGED <<cache, today, journey_coordinates, max_journey_timedelta,
                   location_id, passes, properties, new_properties, index,
                   caller, dest, journeys, min_journey, result, error,
                   cache_at_start, queried, precheck, search_calls, outcomes,
                   shown, waits, ever_evaluated, ever_shown>>

\* if not property.price: continue (lines 70-72).
LoopSkipNoPrice ==
    /\ UNCHANGED <<searchVars, tflVars, dateVars>>
    /\ pc = "loop"
    /\ index < Len(new_properties)
    /\ NoPrice(new_properties[index + 1])
    /\ outcomes' = Append(outcomes, "skipped")
    /\ index' = index + 1
    /\ UNCHANGED <<cache, today, journey_coordinates, max_journey_timedelta,
                   location_id, pc, passes, properties, new_properties,
                   caller, dest, journeys, min_journey, result, error,
                   cache_at_start, queried, precheck, search_calls, shown,
                   waits, ever_evaluated, ever_shown>>

\* The listing has a price: its feasibility evaluation begins (lines 74-79).
LoopCheckJourney ==
    /\ UNCHANGED <<searchVars, tflVars, dateVars>>
    /\ pc = "loop"
    /\ index < Len(new_properties)
    /\ ~NoPrice(new_properties[index + 1])
    /\ EnterCheckJourney("listing")
    /\ ever_evaluated' = ever_evaluated \cup {new_properties[index + 1].id}
    /\ UNCHANGED <<cache, today, journey_coordinates, max_journey_timedelta,
                   location_id, passes, properties, new_properties, index,
                   error, cache_at_start, precheck, search_calls, outcomes,
                   shown, waits, ever_shown>>

\* The evaluation of a listing returned or raised (lines 75-100).
ListingReturn ==
    /\ UNCHANGED <<searchVars, tflVars, dateVars>>
    /\ pc = "returned"
    /\ caller = "listing"
    /\ LET property == new_properties[index + 1] IN
       IF result = "False" THEN
            /\ cache' = CacheAdd(cache, property)
            /\ outcomes' = Append(outcomes, result)
            /\ index' = index + 1
            /\ pc' = "loop"
            /\ UNCHANGED <<shown, waits, ever_shown, error>>
       ELSE IF result = "True" THEN
            /\ shown' = Append(shown, property)
            /\ ever_shown' = ever_shown \cup {property.id}
            /\ waits' = WaitsAfterShow(waits, index, new_properties)
            /\ cache' = CacheAdd(cache, property)
            /\ outcomes' = Append(outcomes, result)
            /\ index' = index + 1
            /\ pc' = "loop"
            /\ UNCHANGED error
       ELSE /\ pc' = "raised"
            /\ error' = result
            /\ UNCHANGED <<cache, outcomes, index, shown, waits, ever_shown>>
    /\ caller' = "none"
    /\ dest' = 1
    /\ journeys' = NoJourneys
    /\ min_journey' = NoJourney
    /\ result' = "none"
    /\ queried' = <<>>
    /\ UNCHANGED <<today, journey_coordinates, max_journey_timedelta,
                   location_id, passes, properties, new_properties,
                   cache_at_start, precheck, search_calls, ever_evaluated>>

\* ------------------------------------------------------------------------
\* rightmove.api: paginated listing fetch
\* ------------------------------------------------------------------------
SEARCH_LIST_MAX_RESULTS == 1000
SEARCH_MAP_MAX_RESULTS == 499
MaxPropertiesPerPage == 25

\* int(response["resultCount"].replace(",", ""))
ResultCount(resp) == ParseInt(RemoveCommas(resp.resultCount))

\* Listings are numbered by their position in the service's result order.
IdsFromTo(a, b) == [k \in 1..(IF b >= a THEN b - a + 1 ELSE 0) |-> a + k - 1]

\* The LIST page the service sends for the request `p`: the listings from
\* the requested index on, one page at most, and the cursor of the next page.
ListPage(p, total) ==
    LET start == IF p.index = <<>> THEN 0 ELSE p.index[1]
        stop == Min(start + p.numberOfPropertiesPerPage, total)
    IN [properties |-> IdsFromTo(start + 1, stop),
        resultCount |-> FormatCount(total),
        next |-> IF stop < total THEN <<DecimalDigits(stop)>> ELSE <<>>]

\* The MAP response: one bounded array.
MapPage(total) ==
    [properties |-> IdsFromTo(1, Min(total, SEARCH_MAP_MAX_RESULTS)),
     resultCount |-> FormatCount(total),
     next |-> <<>>]

\* The responses the service may give to the request `p`: the page, with
\* or without the cursor of a next page.
ServicePages(p, total) ==
    IF p.viewType = "MAP"
    THEN {MapPage(total),
          [MapPage(total) EXCEPT !.next = <<DecimalDigits(SEARCH_MAP_MAX_RESULTS)>>]}
    ELSE {ListPage(p, total), [ListPage(p, total) EXCEPT !.next = <<>>]}

\* Variant: the view is never recognised as MAP.
IsMapViewNever(p) == FALSE

\* if params["viewType"] == "MAP"
IsMapView(p) == p.viewType = "MAP"

\* Variant: the length of the latest page is taken as the next index.
NextIndexPageLength(resp) == <<Len(resp.properties)>>

\* params["index"] = int(response["pagination"]["next"])
NextIndex(resp) == <<ParseInt(resp.next[1])>>

\* Variant: the new page is put in front of the aggregated listings.
ExtendFront(full, page) ==
    [full EXCEPT !.properties = page.properties \o @]

\* full_response["properties"].extend(response["properties"])
Extend(full, page) ==
    [full EXCEPT !.properties = @ \o page.properties]

NoResponse == [properties |-> <<>>, resultCount |-> <<>>, next |-> <<>>]

\* while len(full_response["properties"]) < min(resultCount, SEARCH_LIST_MAX_RESULTS)
MorePages(full, resp) ==
    Len(full.properties) < Min(ResultCount(resp), SEARCH_LIST_MAX_RESULTS)

\* An empty page: no listings, the total still reported, and a cursor back
\* to the start or to the second page.
EmptyPages(p, total) ==
    { [properties |-> <<>>,
       resultCount |-> FormatCount(total),
       next |-> <<DecimalDigits(c)>>] : c \in {0, p.numberOfPropertiesPerPage} }

\* The responses to the request `p`: the pages and, from a stalling
\* service, the empty pages of a LIST search.
Answers(p, total, stalling) ==
    ServicePages(p, total)
    \cup (IF stalling /\ p.viewType = "LIST" THEN EmptyPages(p, total) ELSE {})

\* The observation logs: `logged` tells whether the step is recorded.
Log(log, entry, logged) == IF logged THEN Append(log, entry) ELSE log

\* The first request of _search (lines 334-351).
FirstRequest(stalling, logged) ==
    /\ spc = "start"
    /\ requests' = Log(requests, params.index, logged)
    /\ response' \in Answers(params, service_total, stalling)
    /\ received' = Log(received, response', logged)
    /\ full_response' = response'
    /\ spc' = IF IsMapView(params) THEN "returned" ELSE "loop"
    /\ UNCHANGED <<params, service_total>>
    /\ UNCHANGED <<appVars, tflVars, dateVars>>

SearchFirstRequest == FirstRequest(FALSE, TRUE)

\* One iteration of the aggregation loop (lines 352-363).
NextPage(stalling, logged) ==
    /\ spc = "loop"
    /\ MorePages(full_response, response)
    /\ response.next # <<>>
    /\ LET next_params == [params EXCEPT !.index = NextIndex(response)]
       IN /\ params' = next_params
          /\ requests' = Log(requests, next_params.index, logged)
          /\ \E page \in Answers(next_params, service_total, stalling) :
                /\ response' = page
                /\ received' = Log(received, page, logged)
                /\ full_response' = Extend(full_response, page)
    /\ UNCHANGED <<spc, service_total>>
    /\ UNCHANGED <<appVars, tflVars, dateVars>>

SearchNextPage == NextPage(FALSE, TRUE)

\* response["pagination"]["next"] is missing: KeyError leaves _search.
SearchNoCursor ==
    /\ spc = "loop"
    /\ MorePages(full_response, response)
    /\ response.next = <<>>
    /\ spc' = "raised"
    /\ UNCHANGED <<params, response, full_response, requests, received,
                   service_total>>
    /\ UNCHANGED <<appVars, tflVars, dateVars>>

\* A request is answered with a status other than 200: _request raises
\* HTTPError, which leaves _search (lines 389-393).
RequestFails(logged) ==
    /\ \/ /\ spc = "start"
          /\ UNCHANGED params
       \/ /\ spc = "loop"
          /\ MorePages(full_response, response)
          /\ response.next # <<>>
          /\ params' = [params EXCEPT !.index = NextIndex(response)]
    /\ requests' = Log(requests, params'.index, logged)
    /\ spc' = "raised"
    /\ UNCHANGED <<response, full_response, received, service_total>>
    /\ UNCHANGED <<appVars, tflVars, dateVars>>

SearchRequestFails == RequestFails(TRUE)

\* The loop condition is false: return full_response (line 364).
SearchReturn ==
    /\ spc = "loop"
    /\ ~MorePages(full_response, response)
    /\ spc' = "returned"
    /\ UNCHANGED <<params, response, full_response, requests, received,
                   service_total>>
    /\ UNCHANGED <<appVars, tflVars, dateVars>>

\* Rightmove.search: the listings of the aggregated response.
SearchResult == full_response.properties

\* What _search returns: the only response (MAP) or the aggregate (LIST).
SearchReturnValue == IF IsMapView(params) THEN response ELSE full_response

ResultCounts ==
    (0..3) \cup (23..27) \cup (998..1002) \cup {1008, MaxResultCount}

\* No _search call is running.
SearchIdle ==
    /\ spc = "idle"
    /\ params = [viewType |-> "LIST", numberOfPropertiesPerPage |-> 24, index |-> <<>>]
    /\ response = NoResponse
    /\ full_response = NoResponse
    /\ requests = <<>>
    /\ received = <<>>
    /\ service_total = 0

\* No journey query is running on its own.
TflIdle ==
    /\ tpc = "idle"
    /\ http_response = [status |-> 200, retry_after |-> NoHeader, body |-> EmptyBody]
    /\ request_result = Return(EmptyBody)
    /\ call_result = ReturnCall(NoJourneys)

\* No get_next_datetime call is running on its own.
DateIdle ==
    /\ gpc = "idle"
    /\ now = [day |-> 4, minute |-> 0]
    /\ next_day = 0
    /\ deadline = 0

Caches ==
    {[present |-> FALSE, ids |-> {}]}
    \cup [present : {TRUE}, ids : SUBSET ListingIds]

Init ==
    /\ cache \in Caches
    /\ today = 4
    /\ journey_coordinates \in
           {SubSeq(DestinationNames, 1, n) : n \in 0..MaxDestinations}
    /\ max_journey_timedelta \in MaxJourneyTimedeltas
    /\ location_id = <<>>
    /\ pc = "idle"
    /\ passes = 0
    /\ properties = <<>>
    /\ new_properties = <<>>
    /\ index = 0
    /\ caller = "none"
    /\ dest = 1
    /\ journeys = NoJourneys
    /\ min_journey = NoJourney
    /\ result = "none"
    /\ error = "none"
    /\ cache_at_start = cache.ids
    /\ queried = <<>>
    /\ precheck = "notrun"
    /\ search_calls = 0
    /\ outcomes = <<>>
    /\ shown = <<>>
    /\ waits = {}
    /\ ever_evaluated = {}
    /\ ever_shown = {}
    /\ SearchIdle
    /\ TflIdle
    /\ DateIdle

Next ==
    \/ Search
    \/ CheckJourneyQuery
    \/ CheckJourneyDone
    \/ PrecheckReturn
    \/ FetchListings
    \/ FetchListingsFails
    \/ LoopDone
    \/ LoopSkipNoPrice
    \/ LoopCheckJourney
    \/ ListingReturn

Spec == Init /\ [][Next]_vars

\* ------------------------------------------------------------------------
\* The paginated fetch on its own: every page size, view and result count.
\* ------------------------------------------------------------------------
\* An App without a cache on which no pass has run.
AppIdle ==
    /\ cache = [present |-> FALSE, ids |-> {}]
    /\ today = 4
    /\ journey_coordinates = <<>>
    /\ max_journey_timedelta \in MaxJourneyTimedeltas
    /\ location_id = <<>>
    /\ pc = "idle"
    /\ passes = 0
    /\ properties = <<>>
    /\ new_properties = <<>>
    /\ index = 0
    /\ caller = "none"
    /\ dest = 1
    /\ journeys = NoJourneys
    /\ min_journey = NoJourney
    /\ result = "none"
    /\ error = "none"
    /\ cache_at_start = {}
    /\ queried = <<>>
    /\ precheck = "notrun"
    /\ search_calls = 0
    /\ outcomes = <<>>
    /\ shown = <<>>
    /\ waits = {}
    /\ ever_evaluated = {}
    /\ ever_shown = {}

InitSearch ==
    /\ AppIdle
    /\ TflIdle
    /\ DateIdle
    /\ spc = "start"
    /\ params \in [viewType : {"LIST", "MAP"},
                   numberOfPropertiesPerPage : 1..MaxPropertiesPerPage,
                   index : {<<>>}]
    /\ response = NoResponse
    /\ full_response = NoResponse
    /\ requests = <<>>
    /\ received = <<>>
    /\ service_total \in ResultCounts

NextSearch ==
    \/ SearchFirstRequest
    \/ SearchNextPage
    \/ SearchNoCursor
    \/ SearchRequestFails
    \/ SearchReturn

SpecSearch == InitSearch /\ [][NextSearch]_vars

\* ------------------------------------------------------------------------
\* The paginated fetch against a service that may also answer a request
\* with an empty listing array.  The observation logs are not kept here.
\* ------------------------------------------------------------------------
StallingFirstRequest == FirstRequest(TRUE, FALSE)

StallingNextPage == NextPage(TRUE, FALSE)

StallingRequestFails == RequestFails(FALSE)

InitStalling ==
    /\ AppIdle
    /\ TflIdle
    /\ DateIdle
    /\ spc = "start"
    /\ params \in [viewType : {"LIST", "MAP"},
                   numberOfPropertiesPerPage : 1..MaxStallingPageSize,
                   index : {<<>>}]
    /\ response = NoResponse
    /\ full_response = NoResponse
    /\ requests = <<>>
    /\ received = <<>>
    /\ service_total \in 0..MaxStallingCount

NextStalling ==
    \/ StallingFirstRequest
    \/ StallingNextPage
    \/ SearchNoCursor
    \/ StallingRequestFails
    \/ SearchReturn

\* _search runs in one thread that blocks on each request: while a step
\* can be taken, one is taken.
SpecStalling == InitStalling /\ [][NextStalling]_vars /\ WF_vars(NextStalling)


\* ------------------------------------------------------------------------
\* The journey client on its own: every response of the journey service.
\* ------------------------------------------------------------------------
NoResult == Return(EmptyBody)
NoCallResult == ReturnCall(NoJourneys)

\* get_journey_options: _request has answered the query (lines 45-50).
TflRequest ==
    /\ tpc = "start"
    /\ request_result' = request(http_response)
    /\ tpc' = "requested"
    /\ UNCHANGED <<http_response, call_result>>
    /\ UNCHANGED <<appVars, searchVars, dateVars>>

\* Tfl.__call__ returns or raises (lines 51-69).
TflCallReturn ==
    /\ tpc = "requested"
    /\ call_result' = TflCall(http_response, get_next_datetime(today))
    /\ tpc' = "called"
    /\ UNCHANGED <<http_response, request_result>>
    /\ UNCHANGED <<appVars, searchVars, dateVars>>

InitTfl ==
    /\ AppIdle
    /\ SearchIdle
    /\ DateIdle
    /\ tpc = "start"
    /\ http_response \in TflResponses(get_next_datetime(today))
    /\ request_result = NoResult
    /\ call_result = NoCallResult

NextTfl ==
    \/ TflRequest
    \/ TflCallReturn

SpecTfl == InitTfl /\ [][NextTfl]_vars

\* ------------------------------------------------------------------------
\* get_next_datetime on its own: every current day and time of day.
\* ------------------------------------------------------------------------
\* Times of day of datetime.now(): midnight, around 09:00, end of day.
NowMinutes == {0, ArrivalMinuteOfDay - 1, ArrivalMinuteOfDay, MinutesPerDay - 1}

\* datetime.datetime.now(tz=timezone).date()
Date(instant) == instant.day

\* next_day = now().date() + timedelta(days=1) (line 153).
GetNextDatetimeStart ==
    /\ gpc = "start"
    /\ next_day' = Date(now) + 1
    /\ gpc' = "loop"
    /\ UNCHANGED <<now, deadline>>
    /\ UNCHANGED <<appVars, searchVars, tflVars>>

\* while next_day.weekday() > 4: next_day = next_day + timedelta(days=1)
GetNextDatetimeAdvance ==
    /\ gpc = "loop"
    /\ IsWeekend(next_day)
    /\ next_day' = next_day + 1
    /\ UNCHANGED <<gpc, now, deadline>>
    /\ UNCHANGED <<appVars, searchVars, tflVars>>

\* return datetime(next_day..., hour=9, minute=0, tzinfo=timezone)
GetNextDatetimeReturn ==
    /\ gpc = "loop"
    /\ ~IsWeekend(next_day)
    /\ deadline' = next_day * MinutesPerDay + ArrivalMinuteOfDay
    /\ gpc' = "returned"
    /\ UNCHANGED <<now, next_day>>
    /\ UNCHANGED <<appVars, searchVars, tflVars>>

InitDeadline ==
    /\ AppIdle
    /\ SearchIdle
    /\ TflIdle
    /\ gpc = "start"
    /\ now \in [day : 0..MaxDay, minute : NowMinutes]
    /\ next_day = 0
    /\ deadline = 0

NextDeadline ==
    \/ GetNextDatetimeStart
    \/ GetNextDatetimeAdvance
    \/ GetNextDatetimeReturn

\* The interpreter keeps running the call: a step that can be taken is taken.
SpecDeadline == InitDeadline /\ [][NextDeadline]_vars /\ WF_vars(NextDeadline)

\* ========================================================================
\* Properties
\* ========================================================================
ArrivalDatetime == get_next_datetime(today)

LastQuery == queried[Len(queried)]

\* C1: when the journey client returns an empty journey sequence for a
\* destination, the feasibility evaluation finishes with the result False
\* (it neither raises nor returns True).
C1_EmptyJourneysGiveFalse ==
    (pc = "returned" /\ queried # <<>> /\ LastQuery.count = 0)
        => result = "False"

FetchedIds == {properties[i].id : i \in 1..Len(properties)}

\* C2: after a completed pass with a cache present, the cache is the cache
\* at the start of the pass united with the identifiers of all fetched
\* listings, whatever happened to each listing (feasible, infeasible, or
\* skipped for lack of a price).
C2_CacheRecordsEveryFetchedListing ==
    (pc = "done" /\ cache.present /\ search_calls = 1)
        => cache.ids = cache_at_start \cup FetchedIds

\* C3: the journey the evaluator selects for a destination is the one whose
\* departure instant is closest to the deadline in absolute distance, that
\* is the first element of the sorted sequence the journey client returned.
C3_SelectedIsClosestToDeadline ==
    (pc \in {"check", "returned"} /\ journeys # <<>>)
        => /\ min_journey = journeys[1]
           /\ \A i \in 1..Len(journeys) :
                Abs(ArrivalDatetime - min_journey.departure_datetime)
                    <= Abs(ArrivalDatetime - journeys[i].departure_datetime)

\* C4: a LIST-view paginated fetch that returns has aggregated exactly
\* min(reported total result count, 1000) listings.
C4_AggregatedCountIsMinTotalCap ==
    (spc = "returned" /\ params.viewType = "LIST")
        => Len(full_response.properties)
               = Min(ResultCount(response), SEARCH_LIST_MAX_RESULTS)

\* C5: the list Rightmove.search returns never has more than 1000 listings.
C5_SearchReturnsAtMost1000 ==
    (spc = "returned" /\ params.viewType = "LIST")
        => Len(SearchResult) <= SEARCH_LIST_MAX_RESULTS

EveryQueryHasJourneys == \A i \in 1..Len(queried) : queried[i].count >= 1

\* C6: when every destination queried yields at least one journey, the
\* evaluation returns True exactly when every destination was found to have
\* a selected journey with slack <= max_journey_timedelta (slack equal to
\* the bound is acceptable), and False exactly when some slack exceeds it.
C6_FeasibleIffEverySlackWithinBound ==
    (pc = "returned" /\ EveryQueryHasJourneys)
        => /\ result \in {"True", "False"}
           /\ result = "True" <=>
                 /\ Len(queried) = Len(journey_coordinates)
                 /\ \A i \in 1..Len(queried) :
                        queried[i].slack <= max_journey_timedelta
           /\ result = "False" <=>
                 \E i \in 1..Len(queried) :
                        queried[i].slack > max_journey_timedelta

\* C6 witness: an evaluation returned True with a slack equal to the bound.
C6_Witness ==
    /\ pc = "returned"
    /\ result = "True"
    /\ queried # <<>>
    /\ \E i \in 1..Len(queried) :
          queried[i].count >= 1 /\ queried[i].slack = max_journey_timedelta

\* A query that makes its destination fail: the client raised, returned no
\* journey, or the selected journey's slack exceeds the bound.
FailingQuery(e) == e.count < 1 \/ e.slack > max_journey_timedelta

\* C7: within one evaluation the destinations are queried one at a time in
\* declared order, and no query follows a failing destination: the number
\* of queries is the position of the first failing destination, or the
\* number of destinations when none fails.
C7_QueriesInOrderUntilFirstFailure ==
    (pc \in {"check", "returned"})
        => /\ Len(queried) <= Len(journey_coordinates)
           /\ \A i \in 1..Len(queried) : queried[i].name = journey_coordinates[i]
           /\ \A i \in 1..(Len(queried) - 1) : ~FailingQuery(queried[i])
           /\ pc = "check" =>
                 /\ Len(queried) = dest - 1
                 /\ \A i \in 1..Len(queried) : ~FailingQuery(queried[i])
           /\ pc = "returned" =>
                 \/ queried # <<>> /\ FailingQuery(LastQuery)
                 \/ Len(queried) = Len(journey_coordinates)

\* C7 witness: the first of two destinations failed and the evaluation
\* returned after that single query.
C7_Witness ==
    /\ pc = "returned"
    /\ result = "False"
    /\ Len(journey_coordinates) = 2
    /\ Len(queried) = 1

\* The fetched listings whose identifier was not cached when the pass began.
UncachedAtStart ==
    SelectSeq(properties, LAMBDA property :
                  ~cache.present \/ property.id \notin cache_at_start)

\* The elements of `listings` whose recorded outcome is feasible.
RECURSIVE FeasibleOnes(_, _)
FeasibleOnes(listings, outs) ==
    IF listings = <<>> \/ outs = <<>> THEN <<>>
    ELSE (IF Head(outs) = "True" THEN <<Head(listings)>> ELSE <<>>)
         \o FeasibleOnes(Tail(listings), Tail(outs))

\* C8: the listings displayed are exactly the fetched listings that were
\* not cached when the pass began, have a price and a feasible commute, in
\* the order the listing source returned them; a cached, price-absent or
\* infeasible listing is never displayed, and a completed pass has handled
\* every uncached listing.
C8_DisplayedAreUncachedPricedFeasible ==
    /\ Len(outcomes) <= Len(UncachedAtStart)
    /\ \A i \in 1..Len(outcomes) :
          outcomes[i] = "skipped" <=> UncachedAtStart[i].price = "None"
    /\ shown = FeasibleOnes(UncachedAtStart, outcomes)
    /\ (pc = "done" /\ search_calls = 1) => Len(outcomes) = Len(UncachedAtStart)

\* C8 witness: a completed pass over two fetched listings, one of them
\* cached beforehand, displayed exactly the other one.
C8_Witness ==
    /\ pc = "done"
    /\ Len(properties) = 2
    /\ properties[1].id \in cache_at_start
    /\ shown = <<properties[2]>>

\* The identifier passed to _show by the step, if it is a display step.
Displays(id) ==
    /\ Len(shown') = Len(shown) + 1
    /\ shown'[Len(shown')].id = id

\* The step begins the feasibility evaluation of listing `id`.
BeginsEvaluation(id) ==
    /\ pc = "loop"
    /\ pc' = "check"
    /\ new_properties[index + 1].id = id

\* C9: over passes sharing one cache, each listing identifier is evaluated
\* for feasibility at most once and displayed at most once, also when the
\* source returns the identifier more than once within a pass.
C9_EvaluatedAndShownAtMostOnce ==
    [][cache.present =>
          \A id \in ListingIds :
              /\ Displays(id) => id \notin ever_shown
              /\ BeginsEvaluation(id) => id \notin ever_evaluated]_vars

\* C10: the area pre-check runs only for a station-style location
\* identifier, and when it returns an unacceptable result the pass is over
\* with no listing search issued, no listing evaluated or displayed and the
\* cache unchanged.
C10_PrecheckOnlyForStationsAndAborts ==
    /\ precheck # "notrun" => StartsWith(location_id, StationPrefix)
    /\ precheck = "False" =>
          /\ pc = "done"
          /\ search_calls = 0
          /\ properties = <<>>
          /\ outcomes = <<>>
          /\ shown = <<>>
          /\ cache.ids = cache_at_start

\* C10 witness: the pre-check of a pass returned unacceptable.
C10_Witness ==
    /\ precheck = "False"
    /\ pc = "done"
    /\ passes >= 1


\* The step handles the outcome of the station pre-check.
PrecheckOutcomeStep == pc = "returned" /\ caller = "precheck"

\* C11: a tfl HTTPError (of any kind, location-not-found included) raised
\* in the station pre-check is swallowed: the pass goes on to the listing
\* fetch exactly as after a passed pre-check, with no error surfaced and
\* nothing fetched, evaluated, displayed or cached by the handling step.
C11_PrecheckTransportFailureSwallowed ==
    [][(PrecheckOutcomeStep /\ result \in HTTPErrors)
          => /\ pc' = "fetch"
             /\ error' = "none"
             /\ UNCHANGED <<cache, properties, new_properties, index,
                            search_calls, outcomes, shown, waits>>]_vars

\* C11 witness: after a swallowed location-not-found in the pre-check the
\* pass fetched listings, displayed one and completed.
C11_Witness ==
    /\ precheck = "NotFoundError"
    /\ pc = "done"
    /\ search_calls = 1
    /\ shown # <<>>

RetryableErrors == {"RateLimitError", "InternalServerError", "BadGatewayError"}

\* C12: a RateLimitError, InternalServerError or BadGatewayError raised by
\* the journey client at any journey call of a pass, in the station
\* pre-check or in a per-listing evaluation, aborts the pass with that
\* error surfaced.
C12_RetryableErrorsAbortThePass ==
    [][(pc = "returned" /\ result \in RetryableErrors)
          => /\ pc' = "raised"
             /\ error' = result]_vars


\* The typed failure a non-success status stands for.
FailureOfStatus(status) ==
    IF status = 429 THEN "RateLimitError"
    ELSE IF status = 404 THEN "NotFoundError"
    ELSE IF status = 500 THEN "InternalServerError"
    ELSE IF status = 502 THEN "BadGatewayError"
    ELSE "HTTPError"

IsNoJourneyBody(body) == body.kind = "json" /\ body.message = NoJourneyFound

\* C13: for every non-success response the journey client raises the typed
\* failure its status stands for, whatever the body (empty, not JSON, JSON
\* without a message): 429 RateLimitError carrying the Retry-After value,
\* 404 NotFoundError unless the body is the no-journey-found message, 500
\* InternalServerError, 502 BadGatewayError, any other status HTTPError.
C13_FailureDeterminedByStatus ==
    (tpc # "start" /\ http_response.status # 200
        /\ ~(http_response.status = 404 /\ IsNoJourneyBody(http_response.body)))
        => /\ request_result.raised = FailureOfStatus(http_response.status)
           /\ (http_response.status = 429 /\ IsNumeric(http_response.retry_after))
                 => request_result.wait = ParseInt(http_response.retry_after)

\* C14: Tfl.__call__ returns an empty journey sequence and raises nothing
\* when the service answers 404 with the no-journey-found message, or
\* answers 200 with a body (empty or JSON) that has no journeys array.
C14_NoJourneysIsEmptyResult ==
    (tpc = "called"
        /\ \/ http_response.status = 404 /\ IsNoJourneyBody(http_response.body)
           \/ /\ http_response.status = 200
              /\ http_response.body.kind # "text"
              /\ ~http_response.body.has_journeys)
        => /\ call_result.raised = "none"
           /\ call_result.journeys = <<>>


Ceil(a, b) == (a + b - 1) \div b

Max(a, b) == IF a > b THEN a ELSE b

IsListFetch == params.viewType = "LIST"

\* C15 as stated: a LIST fetch that returns has issued exactly
\* ceil(aggregated_count / page_size) requests.
C15_RequestsAreCeilOfCount ==
    (spc = "returned" /\ IsListFetch)
        => Len(requests) = Ceil(Len(full_response.properties),
                                params.numberOfPropertiesPerPage)

\* C15 (amended): a LIST fetch that returns has issued exactly
\* max(1, ceil(aggregated_count / page_size)) requests (one request even
\* when nothing was found); the first request carries no index, every later
\* request carries as index the pagination.next cursor of the response just
\* before it, and no other parameter ever changes.
C15_RequestsFollowTheCursor ==
    [][IsListFetch =>
          /\ spc' = "returned" =>
                Len(requests') = Max(1, Ceil(Len(full_response'.properties),
                                             params'.numberOfPropertiesPerPage))
          /\ Len(requests') = Len(requests) + 1 =>
                /\ requests'[Len(requests')] = params'.index
                /\ IF requests = <<>>
                   THEN params'.index = <<>>
                   ELSE /\ response.next # <<>>
                        /\ params'.index = <<ParseInt(response.next[1])>>
          /\ params'.viewType = params.viewType
          /\ params'.numberOfPropertiesPerPage = params.numberOfPropertiesPerPage
      ]_vars

\* C15 witness: a LIST fetch returned after at least three requests.
C15_Witness ==
    /\ spc = "returned"
    /\ IsListFetch
    /\ Len(requests) >= 3

\* C16: when a request of the listing fetch gets a non-success response the
\* listing client raises, the call is not repeated and no partial result
\* is used: the pass is aborted with nothing evaluated, displayed or added
\* to the cache.
C16_FailedFetchAbortsThePass ==
    error = "rightmove.HTTPError"
        => /\ pc = "raised"
           /\ search_calls = 1
           /\ properties = <<>>
           /\ new_properties = <<>>
           /\ outcomes = <<>>
           /\ shown = <<>>
           /\ cache.ids = cache_at_start

\* C16 witness: the fetch of a pass over a non-empty cache failed.
C16_Witness ==
    /\ error = "rightmove.HTTPError"
    /\ pc = "raised"
    /\ cache.ids # {}

\* C17: a MAP-view search issues exactly one request, without an index, and
\* returns the response to it unchanged, whatever result count the response
\* reports and whether or not it carries a pagination cursor.
C17_MapSearchIsOneRequest ==
    (spc = "returned" /\ params.viewType = "MAP")
        => /\ Len(requests) = 1
           /\ requests[1] = <<>>
           /\ Len(received) = 1
           /\ SearchReturnValue = received[1]

\* C17 witness: a MAP search returned a response that reports more results
\* than it holds and carries a cursor.
C17_Witness ==
    /\ spc = "returned"
    /\ params.viewType = "MAP"
    /\ response.next # <<>>
    /\ ResultCount(response) > Len(response.properties)

\* C18: every step of a paginated fetch that receives a page puts exactly
\* that page at the end of the aggregated listings, and every other step
\* leaves them alone: the aggregate is always the concatenation of the
\* pages received so far in request order, and nothing already aggregated
\* is removed, replaced or reordered.
C18_AggregationIsAppendOnly ==
    [][IF received' # received
       THEN /\ received' = Append(received, response')
            /\ full_response'.properties
                   = full_response.properties \o response'.properties
       ELSE full_response'.properties = full_response.properties]_vars

\* C18 witness: three pages have been aggregated and more are to come.
C18_Witness ==
    /\ spc = "loop"
    /\ IsListFetch
    /\ Len(received) >= 3
    /\ MorePages(full_response, response)


\* C19: across passes the set of identifiers in the dedup cache never
\* shrinks and the cache never goes away: every step keeps each identifier
\* already contained, whatever is added afterwards or added again.
C19_CacheNeverShrinks ==
    [][/\ cache'.present = cache.present
       /\ cache.ids \subseteq cache'.ids]_vars

\* C19 witness: a pass that began with a non-empty cache has added to it.
C19_Witness ==
    /\ cache.present
    /\ cache_at_start # {}
    /\ cache.ids # cache_at_start
    /\ cache_at_start \subseteq cache.ids

IsMondayToFriday(day) == Weekday(day) \in 0..4

EarliestWorkingDayAfter(day) ==
    CHOOSE d \in (day + 1)..(day + 7) :
        /\ IsMondayToFriday(d)
        /\ \A e \in (day + 1)..(d - 1) : ~IsMondayToFriday(e)

DeadlineIsCorrect ==
    gpc = "returned" =>
        /\ deadline \div MinutesPerDay = EarliestWorkingDayAfter(Date(now))
        /\ deadline % MinutesPerDay = 9 * 60
        /\ deadline = get_next_datetime(Date(now))
        /\ Weekday(Date(now)) = 4 =>
                /\ deadline \div MinutesPerDay = Date(now) + 3
                /\ Weekday(deadline \div MinutesPerDay) = 0
        /\ Weekday(Date(now)) = 2 =>
                /\ deadline \div MinutesPerDay = Date(now) + 1
                /\ Weekday(deadline \div MinutesPerDay) = 3

C21_DeadlineIsNextWorkingDayAtNine ==
    /\ []DeadlineIsCorrect
    /\ <>(gpc = "returned")

\* A call made on a Friday before 09:00 has returned after two turns of
\* the day-advancing loop.
C21_Witness ==
    /\ gpc = "returned"
    /\ Weekday(Date(now)) = 4
    /\ now.minute < ArrivalMinuteOfDay
    /\ next_day = Date(now) + 3

\* ------------------------------------------------------------------------
\* C22: in the per-listing loop the pause is signalled after exactly the
\* listings that were displayed and are not the last element of the
\* uncached listings; a skipped or infeasible listing, and a displayed last
\* one, signal none.
\* ------------------------------------------------------------------------
PausedAfter == waits

DisplayedNotLast ==
    { i \in 0..(Len(outcomes) - 1) :
        /\ outcomes[i + 1] = "True"
        /\ i # Len(new_properties) - 1 }

C22_PauseIffDisplayedAndNotLast == PausedAfter = DisplayedNotLast

\* Two uncached listings, both displayed: a pause after the first only.
C22_Witness ==
    /\ Len(new_properties) = 2
    /\ outcomes = <<"True", "True">>
    /\ waits = {0}

\* ------------------------------------------------------------------------
\* C24: with a cache present, while a listing is being evaluated every
\* earlier listing of the pass whose evaluation completed (displayed or
\* infeasible) is already in the cache; and no step displays a listing
\* that an earlier pass displayed, also after a pass was aborted by a
\* journey call.
\* ------------------------------------------------------------------------
ShownInThisPass == {shown[k].id : k \in 1..Len(shown)}

\* ever_shown is ShownInThisPass plus what earlier passes displayed, so the
\* first display in this pass of a listing an earlier pass displayed finds
\* its id here.
ShownInEarlierPass == ever_shown \ ShownInThisPass

CompletedEarlierAreCached ==
    (cache.present /\ caller = "listing") =>
        \A j \in 1..Len(outcomes) :
            outcomes[j] \in {"True", "False"} =>
                new_properties[j].id \in cache.ids

NotDisplayedAgain ==
    cache.present =>
        \A id \in ListingIds : Displays(id) => id \notin ShownInEarlierPass

C24_CompletedListingsCachedBeforeNext ==
    /\ []CompletedEarlierAreCached
    /\ [][NotDisplayedAgain]_vars

\* The first pass displayed listing 1 and was aborted while evaluating
\* listing 2 (its evaluation began, yet it is not cached); the second pass
\* fetched both and is left with listing 2 only.
C24_Witness ==
    /\ cache.present
    /\ passes = 2
    /\ pc = "loop"
    /\ index = 0
    /\ 1 \in ever_shown
    /\ 2 \in ever_evaluated \ cache.ids
    /\ Len(properties) = 2
    /\ properties[1].id = 1
    /\ Len(new_properties) = 1
    /\ new_properties[1].id = 2

\* ------------------------------------------------------------------------
\* C23: a LIST-view paginated fetch comes to an end, returning or raising,
\* whatever the service answers, also when a page request is answered with
\* an empty listing array and a total above what has been accumulated.
\* ------------------------------------------------------------------------
SearchEnded == spc \in {"returned", "raised"}

C23_ListFetchTerminates == IsListFetch => <>SearchEnded
====
